---- MODULE Spec2Model ----
(***************************************************************************)
(* The three servers of httpWebServer as one state machine:                *)
(*   "echo"     src/server.py       blocking echo server                   *)
(*   "file"     src/serverTwo.py    blocking static-file server            *)
(*   "threaded" src/serverThree.py  thread-per-connection, API routes      *)
(*                                                                         *)
(* Text is a tuple of one-character strings.  Bytes are the same atoms;    *)
(* a byte above 0x7F is named by its hex value ("xC3") and a code point    *)
(* above U+7F by its number ("U+E9"), so that encoding and decoding are    *)
(* real conversions and byte length differs from character length.         *)
(***************************************************************************)
EXTENDS Integers, Sequences, FiniteSets, TLC

\* ------------------------------------------------------------------ text

CRLF == <<"\r","\n">>

\* The bytes above 0x7F the model's inputs use.
LeadBytes == {"xC3"}
ContBytes == {"xA9", "x89"}
HighBytes == LeadBytes \cup ContBytes \cup {"xFF"}

\* The code point a lead byte 0xC3 and a continuation byte encode.
CodePoint(cont) == IF cont = "xA9" THEN "U+E9" ELSE "U+C9"

\* The concatenation of a sequence of sequences (by halves, to keep the
\* evaluation shallow).
RECURSIVE Flatten(_)
Flatten(seqs) ==
    IF Len(seqs) = 0 THEN << >>
    ELSE IF Len(seqs) = 1 THEN seqs[1]
    ELSE Flatten(SubSeq(seqs, 1, Len(seqs) \div 2))
         \o Flatten(SubSeq(seqs, (Len(seqs) \div 2) + 1, Len(seqs)))

\* Whether the byte at i is well placed: a byte below 0x80, a lead byte
\* with its continuation byte, or the continuation byte of a lead byte.
WellPlaced(bytes, i) ==
    \/ bytes[i] \notin HighBytes
    \/ bytes[i] \in LeadBytes /\ i < Len(bytes) /\ bytes[i + 1] \in ContBytes
    \/ bytes[i] \in ContBytes /\ i > 1 /\ bytes[i - 1] \in LeadBytes

\* The characters the byte at i of a valid text contributes.
DecodeAt(bytes, i) ==
    IF bytes[i] \in LeadBytes THEN << CodePoint(bytes[i + 1]) >>
    ELSE IF bytes[i] \in ContBytes THEN << >>
    ELSE << bytes[i] >>

\* bytes.decode('utf-8'): ok is FALSE where Python raises UnicodeDecodeError.
Decode(bytes) ==
    IF \A i \in 1..Len(bytes) : WellPlaced(bytes, i)
    THEN [ok |-> TRUE, text |-> Flatten([i \in 1..Len(bytes) |-> DecodeAt(bytes, i)])]
    ELSE [ok |-> FALSE, text |-> << >>]

EncodeChar(ch) ==
    CASE ch = "U+E9" -> <<"xC3", "xA9">>
      [] ch = "U+C9" -> <<"xC3", "x89">>
      [] OTHER -> << ch >>

\* str.encode('utf-8')
Encode(text) == Flatten([i \in 1..Len(text) |-> EncodeChar(text[i])])

\* The least element of a non-empty set of numbers.
Least(S) == CHOOSE x \in S : \A y \in S : x <= y

\* The greatest element of a non-empty set of numbers.
Greatest(S) == CHOOSE x \in S : \A y \in S : y <= x

\* The places of sep in s at or after i.
Occurrences(s, sep, i) ==
    { j \in i..(Len(s) - Len(sep) + 1) : SubSeq(s, j, j + Len(sep) - 1) = sep }

\* The index of the first occurrence of sep in s at or after i; 0 when none.
Find(s, sep, i) ==
    IF Occurrences(s, sep, i) = {} THEN 0 ELSE Least(Occurrences(s, sep, i))

\* str.split(sep)
RECURSIVE Split(_, _)
Split(s, sep) ==
    LET k == Find(s, sep, 1)
    IN  IF k = 0 THEN <<s>>
        ELSE <<SubSeq(s, 1, k - 1)>> \o Split(SubSeq(s, k + Len(sep), Len(s)), sep)

\* str.split(sep, 1)
SplitOnce(s, sep) ==
    LET k == Find(s, sep, 1)
    IN  IF k = 0 THEN <<s>>
        ELSE <<SubSeq(s, 1, k - 1), SubSeq(s, k + Len(sep), Len(s))>>

\* sep.join(parts)
RECURSIVE Join(_, _)
Join(parts, sep) ==
    IF parts = << >> THEN << >>
    ELSE IF Len(parts) = 1 THEN parts[1]
    ELSE parts[1] \o sep \o Join(Tail(parts), sep)

\* str.lstrip(ch): every leading ch is removed.
RECURSIVE LStrip(_, _)
LStrip(s, ch) ==
    IF s # << >> /\ Head(s) = ch THEN LStrip(Tail(s), ch) ELSE s

Whitespace == {" ", "\t", "\r", "\n"}

RECURSIVE LStripSpace(_)
LStripSpace(s) ==
    IF s # << >> /\ Head(s) \in Whitespace THEN LStripSpace(Tail(s)) ELSE s

RECURSIVE RStripSpace(_)
RStripSpace(s) ==
    IF s # << >> /\ s[Len(s)] \in Whitespace
    THEN RStripSpace(SubSeq(s, 1, Len(s) - 1)) ELSE s

\* str.strip()
Strip(s) == RStripSpace(LStripSpace(s))

Digits == <<"0","1","2","3","4","5","6","7","8","9">>

\* f"{n}" of a non-negative integer
RECURSIVE ToDecimal(_)
ToDecimal(n) ==
    IF n < 10 THEN <<Digits[n + 1]>>
    ELSE ToDecimal(n \div 10) \o <<Digits[(n % 10) + 1]>>

\* str.upper() on the letters the route registrations use.
UpperOf(ch) ==
    CASE ch = "g" -> "G" [] ch = "e" -> "E" [] ch = "t" -> "T"
      [] ch = "p" -> "P" [] ch = "o" -> "O" [] ch = "s" -> "S"
      [] OTHER -> ch

Upper(s) == [i \in 1..Len(s) |-> UpperOf(s[i])]

\* ------------------------------------------------------- request parser

NoHeaders == [k \in {} |-> << >>]

\* dict.get(key, default)
Get(d, key, default) == IF key \in DOMAIN d THEN d[key] ELSE default

\* A header loop that keeps the first value of a key that repeats.
RECURSIVE HeaderScan_FirstWins(_, _, _)
HeaderScan_FirstWins(lines, i, headers) ==
    IF i > Len(lines) THEN [headers |-> headers, body_start_index |-> -1]
    ELSE IF lines[i] = << >> THEN [headers |-> headers, body_start_index |-> i]
    ELSE IF Find(lines[i], <<":">>, 1) # 0
         THEN LET kv == SplitOnce(lines[i], <<":">>)
              IN  HeaderScan_FirstWins(lines, i + 1,
                                       headers @@ (Strip(kv[1]) :> Strip(kv[2])))
    ELSE HeaderScan_FirstWins(lines, i + 1, headers)

\* The header loop of parse_request over lines[1:]; i is the 1-based place
\* of the line, body_start_index the 0-based index Python computes (-1 when
\* no empty line ends the headers).
RECURSIVE HeaderScan(_, _, _)
HeaderScan(lines, i, headers) ==
    IF i > Len(lines) THEN [headers |-> headers, body_start_index |-> -1]
    ELSE IF lines[i] = << >> THEN [headers |-> headers, body_start_index |-> i]
    ELSE IF Find(lines[i], <<":">>, 1) # 0
         THEN LET kv == SplitOnce(lines[i], <<":">>)
              IN  HeaderScan(lines, i + 1,
                             (Strip(kv[1]) :> Strip(kv[2])) @@ headers)
    ELSE HeaderScan(lines, i + 1, headers)

\* parse_request with the length test weakened to "fewer than three".
parse_request_AtLeastThree(request_data) ==
    LET lines        == Split(request_data, CRLF)
        request_line == Split(lines[1], <<" ">>)
    IN  [ok |-> Len(request_line) >= 3,
         method |-> IF Len(request_line) >= 3 THEN request_line[1] ELSE << >>,
         path |-> IF Len(request_line) >= 3 THEN request_line[2] ELSE << >>,
         http_version |-> IF Len(request_line) >= 3 THEN request_line[3] ELSE << >>,
         headers |-> NoHeaders, body |-> << >>]

\* parse_request with the body lines rejoined with a bare line feed.
parse_request_JoinLF(request_data) ==
    LET lines        == Split(request_data, CRLF)
        request_line == Split(lines[1], <<" ">>)
        scan         == HeaderScan(lines, 2, NoHeaders)
    IN  IF Len(request_line) # 3
        THEN [ok |-> FALSE, method |-> << >>, path |-> << >>,
              http_version |-> << >>, headers |-> NoHeaders, body |-> << >>]
        ELSE [ok |-> TRUE,
              method |-> request_line[1],
              path |-> request_line[2],
              http_version |-> request_line[3],
              headers |-> scan.headers,
              body |-> IF scan.body_start_index # -1
                       THEN Join(SubSeq(lines, scan.body_start_index + 1,
                                        Len(lines)), <<"\n">>)
                       ELSE << >>]

\* parse_request of the threaded server; ok is FALSE where it returns None.
parse_request(request_data) ==
    LET lines        == Split(request_data, CRLF)
        request_line == Split(lines[1], <<" ">>)
        scan         == HeaderScan(lines, 2, NoHeaders)
    IN  IF Len(request_line) # 3
        THEN [ok |-> FALSE, method |-> << >>, path |-> << >>,
              http_version |-> << >>, headers |-> NoHeaders, body |-> << >>]
        ELSE [ok |-> TRUE,
              method |-> request_line[1],
              path |-> request_line[2],
              http_version |-> request_line[3],
              headers |-> scan.headers,
              body |-> IF scan.body_start_index # -1
                       THEN Join(SubSeq(lines, scan.body_start_index + 1,
                                        Len(lines)), CRLF)
                       ELSE << >>]

\* The request-line parsing of the file server's handle_request: it reads
\* no headers and no body.
parse_request_line(request_data) ==
    LET request_lines == Split(request_data, CRLF)
        parts         == Split(request_lines[1], <<" ">>)
    IN  IF Len(parts) # 3
        THEN [ok |-> FALSE, method |-> << >>, path |-> << >>,
              http_version |-> << >>, headers |-> NoHeaders, body |-> << >>]
        ELSE [ok |-> TRUE, method |-> parts[1], path |-> parts[2],
              http_version |-> parts[3], headers |-> NoHeaders, body |-> << >>]

\* ------------------------------------------------------ response writer

\* A body handed to send_response is a str or a bytes object.
StrBody(text)    == [kind |-> "str", data |-> text]
BytesBody(bytes) == [kind |-> "bytes", data |-> bytes]

\* Content-Length as the number of characters of the body.
ContentLength_Chars(body) == Len(body.data)

\* The value send_response writes after "Content-Length: ".
ContentLength(body) ==
    IF body.kind = "bytes" THEN Len(body.data) ELSE Len(Encode(body.data))

\* The first sendall of send_response: the encoded header block.
ResponseHeaders(status_code, status_message, body, content_type) ==
    Encode(Join(<< <<"H","T","T","P","/","1",".","1"," ">> \o ToDecimal(status_code) \o <<" ">> \o status_message,
                   <<"C","o","n","t","e","n","t","-","T","y","p","e",":"," ">> \o content_type,
                   <<"C","o","n","t","e","n","t","-","L","e","n","g","t","h",":"," ">> \o ToDecimal(ContentLength(body)),
                   <<"C","o","n","n","e","c","t","i","o","n",":"," ","c","l","o","s","e">>,
                   CRLF >>, CRLF))

\* The second sendall of send_response: the body bytes.
ResponseBody(body) ==
    IF body.kind = "str" THEN Encode(body.data) ELSE body.data

\* One invocation of send_response, as the handlers make it.
Response(status_code, status_message, body, content_type) ==
    [status_code |-> status_code, status_message |-> status_message,
     body |-> body, content_type |-> content_type]

\* The two writes of one invocation, in the order send_response makes them.
Writes(r) ==
    << ResponseHeaders(r.status_code, r.status_message, r.body, r.content_type),
       ResponseBody(r.body) >>

\* ------------------------------------------------------- content types

\* str.rfind(ch), 1-based; 0 when ch does not occur.
RFind(s, ch) ==
    IF Occurrences(s, << ch >>, 1) = {} THEN 0
    ELSE Greatest(Occurrences(s, << ch >>, 1))

\* Whether s[from..to] holds a character other than a dot.
HasNonDot(s, from, to) == \E i \in from..to : s[i] # "."

\* os.path.splitext(p)[1]: the text from the last dot of the last path
\* component, unless that component holds only dots before it.
SplitExt(p) ==
    LET sepIndex == RFind(p, "/")
        dotIndex == RFind(p, ".")
    IN  IF dotIndex > sepIndex /\ HasNonDot(p, sepIndex + 1, dotIndex - 1)
        THEN SubSeq(p, dotIndex, Len(p))
        ELSE << >>

get_content_type(file_path) ==
    LET ext == SplitExt(file_path)
    IN  CASE ext = <<".","h","t","m","l">> -> <<"t","e","x","t","/","h","t","m","l">>
          [] ext = <<".","c","s","s">>  -> <<"t","e","x","t","/","c","s","s">>
          [] ext = <<".","j","s">>   -> <<"a","p","p","l","i","c","a","t","i","o","n","/","j","a","v","a","s","c","r","i","p","t">>
          [] ext = <<".","j","s","o","n">> -> <<"a","p","p","l","i","c","a","t","i","o","n","/","j","s","o","n">>
          [] ext = <<".","p","n","g">>  -> <<"i","m","a","g","e","/","p","n","g">>
          [] ext = <<".","j","p","g">> \/ ext = <<".","j","p","e","g">> -> <<"i","m","a","g","e","/","j","p","e","g">>
          [] ext = <<".","g","i","f">>  -> <<"i","m","a","g","e","/","g","i","f">>
          [] ext = <<".","t","x","t">>  -> <<"t","e","x","t","/","p","l","a","i","n">>
          [] OTHER -> <<"a","p","p","l","i","c","a","t","i","o","n","/","o","c","t","e","t","-","s","t","r","e","a","m">>

\* --------------------------------------------------------- file system

STATIC_FILES_DIR == <<"s","t","a","t","i","c">>

\* os.path.join(a, b): an absolute b replaces a.
OsPathJoin(a, b) ==
    IF b # << >> /\ Head(b) = "/" THEN b
    ELSE IF a = << >> \/ a[Len(a)] = "/" THEN a \o b
    ELSE a \o <<"/">> \o b

\* The file system the servers run on.  A node is the tuple of names from
\* the root; the process's working directory is /srv, so that the static
\* root is /srv/static.
WorkingDir == << <<"s","r","v">> >>

Directories ==
    { << >>,
      << <<"s","r","v">> >>,
      << <<"s","r","v">>, <<"s","t","a","t","i","c">> >>,
      << <<"s","r","v">>, <<"s","t","a","t","i","c">>, <<"d","o","c","s">> >>,
      << <<"s","r","v">>, <<"s","t","a","t","i","c">>, <<"v","1",".","j","s","o","n">> >> }

\* Regular files: whether open/read succeeds, and the bytes.
RegularFiles ==
    (<< <<"s","r","v">>, <<"s","t","a","t","i","c">>, <<"i","n","d","e","x",".","h","t","m","l">> >> :> [readable |-> TRUE, content |-> <<"<","h","1",">","H","i","<","/","h","1",">">>])
 @@ (<< <<"s","r","v">>, <<"s","t","a","t","i","c">>, <<"s","t","y","l","e",".","c","s","s">> >>  :> [readable |-> TRUE, content |-> <<"p","{","}">>])
 @@ (<< <<"s","r","v">>, <<"s","t","a","t","i","c">>, <<"l","o","g","o",".","p","n","g">> >>   :> [readable |-> TRUE, content |-> <<"x89">> \o <<"P","N","G">>])
 @@ (<< <<"s","r","v">>, <<"s","t","a","t","i","c">>, <<"p","h","o","t","o",".","j","p","e","g">> >> :> [readable |-> TRUE, content |-> <<"xFF">> \o <<"J">>])
 @@ (<< <<"s","r","v">>, <<"s","t","a","t","i","c">>, <<"l","o","c","k","e","d",".","t","x","t">> >> :> [readable |-> FALSE, content |-> <<"n","o">>])
 @@ (<< <<"s","r","v">>, <<"s","t","a","t","i","c">>, <<"a","p","p",".","j","s">> >>     :> [readable |-> TRUE, content |-> <<"f","(",")">>])
 @@ (<< <<"s","r","v">>, <<"s","t","a","t","i","c">>, <<"d","a","t","a",".","j","s","o","n">> >>  :> [readable |-> TRUE, content |-> <<"{","}">>])
 @@ (<< <<"s","r","v">>, <<"s","t","a","t","i","c">>, <<"p","i","c",".","j","p","g">> >>    :> [readable |-> TRUE, content |-> <<"xFF">> \o <<"j">>])
 @@ (<< <<"s","r","v">>, <<"s","t","a","t","i","c">>, <<"a","n","i","m",".","g","i","f">> >>   :> [readable |-> TRUE, content |-> <<"G","I","F","8">>])
 @@ (<< <<"s","r","v">>, <<"s","t","a","t","i","c">>, <<"n","o","t","e","s",".","t","x","t">> >>  :> [readable |-> TRUE, content |-> <<"a","\r","\n","\r","\n","b">>])
 @@ (<< <<"s","r","v">>, <<"s","t","a","t","i","c">>, <<"U","P",".","H","T","M","L">> >>    :> [readable |-> TRUE, content |-> <<"U","P">>])
 @@ (<< <<"s","r","v">>, <<"s","t","a","t","i","c">>, <<".","h","i","d","d","e","n">> >>    :> [readable |-> TRUE, content |-> << >>])
 @@ (<< <<"s","r","v">>, <<"s","t","a","t","i","c">>, <<"a","r","c","h","i","v","e",".","t","a","r",".","g","z">> >> :> [readable |-> TRUE, content |-> <<"g","z">>])
 @@ (<< <<"s","r","v">>, <<"s","t","a","t","i","c">>, <<"R","E","A","D","M","E">> >>     :> [readable |-> TRUE, content |-> <<"r","e","a","d"," ","m","e">>])
 @@ (<< <<"s","r","v">>, <<"s","t","a","t","i","c">>, <<"v","1",".","j","s","o","n">>, <<"i","n","d","e","x",".","h","t","m","l">> >> :> [readable |-> TRUE, content |-> <<"w","k">>])
 @@ (<< <<"s","r","v">>, <<"s","e","c","r","e","t",".","t","x","t">> >>           :> [readable |-> TRUE, content |-> <<"k","e","y">>])

Missing == [kind |-> "none", at |-> << >>]

NodeAt(at) ==
    IF at \in Directories THEN [kind |-> "dir", at |-> at]
    ELSE IF at \in DOMAIN RegularFiles THEN [kind |-> "file", at |-> at]
    ELSE Missing

\* The kernel's walk of a path's components from a node: every component
\* but the last must name a directory.
RECURSIVE WalkFrom(_, _)
WalkFrom(node, names) ==
    IF names = << >> THEN node
    ELSE IF node.kind # "dir" THEN Missing
    ELSE IF Head(names) = << >> \/ Head(names) = <<".">>
         THEN WalkFrom(node, Tail(names))
    ELSE IF Head(names) = <<".",".">>
         THEN WalkFrom(NodeAt(IF node.at = << >> THEN << >>
                              ELSE SubSeq(node.at, 1, Len(node.at) - 1)),
                       Tail(names))
    ELSE WalkFrom(NodeAt(Append(node.at, Head(names))), Tail(names))

Lookup(path) ==
    IF path = << >> THEN Missing
    ELSE WalkFrom(NodeAt(IF Head(path) = "/" THEN << >> ELSE WorkingDir),
                  Split(path, <<"/">>))

OsPathIsDir(path)  == Lookup(path).kind = "dir"
OsPathExists(path) == Lookup(path).kind # "none"
OsPathIsFile(path) == Lookup(path).kind = "file"

\* open(file_path, 'rb') and f.read(): ok is FALSE where they raise.
ReadFile(path) ==
    LET node == Lookup(path)
    IN  IF node.kind = "file" /\ RegularFiles[node.at].readable
        THEN [ok |-> TRUE, content |-> RegularFiles[node.at].content]
        ELSE [ok |-> FALSE, content |-> << >>]

\* ------------------------------------------------ static file resolver

\* Only the first slash removed.
StripOneSlash(path) == IF path # << >> /\ Head(path) = "/" THEN Tail(path) ELSE path

\* path.lstrip('/') of the static branch.
StripLeadingSlash(path) == LStrip(path, "/")

\* The file_path the static branch serves for a URL path.
ResolveFilePath(path) ==
    LET joined == OsPathJoin(STATIC_FILES_DIR, StripLeadingSlash(path))
    IN  IF OsPathIsDir(joined) THEN OsPathJoin(joined, <<"i","n","d","e","x",".","h","t","m","l">>) ELSE joined

Html500 == Response(500, <<"I","n","t","e","r","n","a","l"," ","S","e","r","v","e","r"," ","E","r","r","o","r">>,
                    StrBody(<<"<","h","1",">","5","0","0"," ","I","n","t","e","r","n","a","l"," ","S","e","r","v","e","r"," ","E","r","r","o","r","<","/","h","1",">">>), <<"t","e","x","t","/","h","t","m","l">>)

Html404 == Response(404, <<"N","o","t"," ","F","o","u","n","d">>, StrBody(<<"<","h","1",">","4","0","4"," ","N","o","t"," ","F","o","u","n","d","<","/","h","1",">">>), <<"t","e","x","t","/","h","t","m","l">>)

\* The static branch with the content type taken from the URL path instead
\* of the resolved file path.
ServeStatic_TypeFromUrl(path) ==
    LET file_path == OsPathJoin(STATIC_FILES_DIR, LStrip(path, "/"))
        served    == IF OsPathIsDir(file_path)
                     THEN OsPathJoin(file_path, <<"i","n","d","e","x",".","h","t","m","l">>) ELSE file_path
        read      == ReadFile(served)
    IN  IF OsPathExists(served) /\ OsPathIsFile(served)
        THEN IF read.ok
             THEN [first |-> [status_code |-> 200, status_message |-> <<"O","K">>,
                              body |-> [kind |-> "bytes", data |-> read.content],
                              content_type |-> get_content_type(path)],
                   handlers |-> << Html500 >>]
             ELSE [first |-> Html500, handlers |-> << >>]
        ELSE [first |-> Html404, handlers |-> << >>]

\* A static branch that answers 404 to a URL path with a parent-directory
\* segment.
ServeStatic_RejectParent(path) ==
    LET file_path == ResolveFilePath(path)
        read      == ReadFile(file_path)
        segments  == Split(path, <<"/">>)
    IN  IF \E i \in 1..Len(segments) : segments[i] = <<".", ".">>
        THEN [first |-> Html404, handlers |-> << >>]
        ELSE IF OsPathExists(file_path) /\ OsPathIsFile(file_path)
        THEN IF read.ok
             THEN [first |-> Response(200, <<"O","K">>, BytesBody(read.content),
                                      get_content_type(file_path)),
                   handlers |-> << Html500 >>]
             ELSE [first |-> Html500, handlers |-> << >>]
        ELSE [first |-> Html404, handlers |-> << >>]

\* What the static branch does for a URL path: the first send_response it
\* makes and the responses of the except clauses that enclose that call
\* (innermost first, the handler's own except clause not among them).
ServeStatic(path) ==
    LET file_path == ResolveFilePath(path)
        read      == ReadFile(file_path)
    IN  IF OsPathExists(file_path) /\ OsPathIsFile(file_path)
        THEN IF read.ok
             THEN [first |-> Response(200, <<"O","K">>, BytesBody(read.content),
                                      get_content_type(file_path)),
                   handlers |-> << Html500 >>]
             ELSE [first |-> Html500, handlers |-> << >>]
        ELSE [first |-> Html404, handlers |-> << >>]

MethodNotSupported(method) ==
    Response(400, <<"B","a","d"," ","R","e","q","u","e","s","t">>,
             StrBody(<<"<","h","1",">","4","0","0"," ","B","a","d"," ","R","e","q","u","e","s","t",":"," ","M","e","t","h","o","d"," ">> \o method
                     \o <<" ","n","o","t"," ","s","u","p","p","o","r","t","e","d"," ","f","o","r"," ","s","t","a","t","i","c"," ","f","i","l","e","s",".","<","/","h","1",">">>),
             <<"t","e","x","t","/","h","t","m","l">>)

\* ----------------------------------------------------------------- JSON

\* A JSON value: a literal (a number, true, false, null, held as its text),
\* a string, an array of values or an object of members [k, v].
JLit(text)    == [t |-> "lit", s |-> text, items |-> << >>]
JStr(text)    == [t |-> "str", s |-> text, items |-> << >>]
JArr(values)  == [t |-> "arr", s |-> << >>, items |-> values]
JObj(members) == [t |-> "obj", s |-> << >>, items |-> members]

\* json.loads raises JSONDecodeError.
JsonFail == [ok |-> FALSE, val |-> JLit(<< >>), next |-> 0, error |-> "decode"]

\* A run of 1000 opening brackets, held as one element of a text.  The
\* scanner of json.loads calls itself once for each of them, and the
\* interpreter's recursion limit (1000 frames by default) ends that with a
\* RecursionError before the scanner reads what follows the run.
DeepOpening == "[*1000"

\* json.loads raises RecursionError.
JsonTooDeep == [ok |-> FALSE, val |-> JLit(<< >>), next |-> 0, error |-> "recursion"]

JsonWhitespace == {" ", "\t", "\n", "\r"}
DigitSet       == {Digits[i] : i \in 1..10}

RECURSIVE SkipWs(_, _)
SkipWs(s, i) ==
    IF i <= Len(s) /\ s[i] \in JsonWhitespace THEN SkipWs(s, i + 1) ELSE i

\* The index after the last digit of the run of digits that starts at i.
RECURSIVE DigitsEnd(_, _)
DigitsEnd(s, i) ==
    IF i <= Len(s) /\ s[i] \in DigitSet THEN DigitsEnd(s, i + 1) ELSE i

StartsAt(s, i, word) ==
    /\ i + Len(word) - 1 <= Len(s)
    /\ SubSeq(s, i, i + Len(word) - 1) = word

\* A dict keeps a repeated key at its first place with its last value.
RECURSIVE PutMember(_, _)
PutMember(members, m) ==
    IF members = << >> THEN << m >>
    ELSE IF Head(members).k = m.k THEN << m >> \o Tail(members)
    ELSE << Head(members) >> \o PutMember(Tail(members), m)

\* json.loads, for texts without string escapes, fractions and exponents:
\* the value that starts at s[i] and the index after it.
RECURSIVE ParseValue(_, _)
RECURSIVE ParseElements(_, _, _)
RECURSIVE ParseMembers(_, _, _)
RECURSIVE ElementsAfter(_, _, _)
RECURSIVE MembersAfter(_, _, _, _)

ParseString(s, i) ==
    LET close == Find(s, <<"\"">>, i + 1)
        inner == SubSeq(s, i + 1, close - 1)
    IN  IF \/ close = 0
           \/ \E j \in 1..Len(inner) : inner[j] \in {"\\", "\t", "\n", "\r"}
        THEN JsonFail
        ELSE [ok |-> TRUE, val |-> JStr(inner), next |-> close + 1, error |-> ""]

ParseNumber(s, i) ==
    LET first == IF s[i] = "-" THEN i + 1 ELSE i
        end   == IF first <= Len(s) /\ s[first] = "0" THEN first + 1
                 ELSE DigitsEnd(s, first)
        text  == SubSeq(s, i, end - 1)
    IN  IF end = first THEN JsonFail
        ELSE [ok |-> TRUE, val |-> JLit(IF text = <<"-","0">> THEN <<"0">> ELSE text),
              next |-> end, error |-> ""]

ParseValue(s, i) ==
    IF i > Len(s) THEN JsonFail
    ELSE IF s[i] = DeepOpening THEN JsonTooDeep
    ELSE IF s[i] = "\"" THEN ParseString(s, i)
    ELSE IF s[i] = "-" \/ s[i] \in DigitSet THEN ParseNumber(s, i)
    ELSE IF StartsAt(s, i, <<"t","r","u","e">>)
         THEN [ok |-> TRUE, val |-> JLit(<<"t","r","u","e">>), next |-> i + 4, error |-> ""]
    ELSE IF StartsAt(s, i, <<"f","a","l","s","e">>)
         THEN [ok |-> TRUE, val |-> JLit(<<"f","a","l","s","e">>), next |-> i + 5, error |-> ""]
    ELSE IF StartsAt(s, i, <<"n","u","l","l">>)
         THEN [ok |-> TRUE, val |-> JLit(<<"n","u","l","l">>), next |-> i + 4, error |-> ""]
    ELSE IF s[i] = "["
         THEN LET j == SkipWs(s, i + 1)
              IN  IF j <= Len(s) /\ s[j] = "]"
                  THEN [ok |-> TRUE, val |-> JArr(<< >>), next |-> j + 1, error |-> ""]
                  ELSE ParseElements(s, j, << >>)
    ELSE IF s[i] = "{"
         THEN LET j == SkipWs(s, i + 1)
              IN  IF j <= Len(s) /\ s[j] = "}"
                  THEN [ok |-> TRUE, val |-> JObj(<< >>), next |-> j + 1, error |-> ""]
                  ELSE ParseMembers(s, j, << >>)
    ELSE JsonFail

\* The elements of an array from s[i] (after "[" or ","), to its "]".
ParseElements(s, i, acc) == ElementsAfter(s, acc, ParseValue(s, SkipWs(s, i)))

\* The rest of an array after its element e, parsed or failed.
ElementsAfter(s, acc, e) ==
    LET j == SkipWs(s, e.next)
    IN  IF ~e.ok THEN e
        ELSE IF j > Len(s) THEN JsonFail
        ELSE IF s[j] = "," THEN ParseElements(s, j + 1, Append(acc, e.val))
        ELSE IF s[j] = "]"
             THEN [ok |-> TRUE, val |-> JArr(Append(acc, e.val)), next |-> j + 1,
                   error |-> ""]
        ELSE JsonFail

\* The members of an object from s[i] (after "{" or ","), to its "}".
ParseMembers(s, i, acc) ==
    LET ki  == SkipWs(s, i)
        key == IF ki <= Len(s) /\ s[ki] = "\"" THEN ParseString(s, ki) ELSE JsonFail
        ci  == SkipWs(s, key.next)
    IN  MembersAfter(s, acc, key,
                     IF key.ok /\ ci <= Len(s) /\ s[ci] = ":"
                     THEN ParseValue(s, SkipWs(s, ci + 1)) ELSE JsonFail)

\* The rest of an object after its member of key and value v, parsed or
\* failed.
MembersAfter(s, acc, key, v) ==
    LET j   == SkipWs(s, v.next)
        all == PutMember(acc, [k |-> key.val.s, v |-> v.val])
    IN  IF ~v.ok THEN v
        ELSE IF j > Len(s) THEN JsonFail
        ELSE IF s[j] = "," THEN ParseMembers(s, j + 1, all)
        ELSE IF s[j] = "}"
             THEN [ok |-> TRUE, val |-> JObj(all), next |-> j + 1, error |-> ""]
        ELSE JsonFail

\* What json.loads(text) makes of its one value v: only whitespace may
\* follow it.
Loaded(text, v) ==
    IF v.ok /\ SkipWs(text, v.next) = Len(text) + 1
        THEN [ok |-> TRUE, val |-> v.val, error |-> ""]
        ELSE [ok |-> FALSE, val |-> JLit(<< >>),
              error |-> IF v.ok THEN "decode" ELSE v.error]

\* json.loads(text): ok is FALSE where it raises, error tells what:
\* "decode" for JSONDecodeError, "recursion" for RecursionError.
JsonLoads(text) == Loaded(text, ParseValue(text, SkipWs(text, 1)))

\* json.dumps of one character of a string (ensure_ascii).
JsonChar(ch) ==
    CASE ch = "\"" -> <<"\\","\"">>
      [] ch = "\\" -> <<"\\","\\">>
      [] ch = "\n" -> <<"\\","n">>
      [] ch = "\r" -> <<"\\","r">>
      [] ch = "\t" -> <<"\\","t">>
      [] ch = "U+E9" -> <<"\\","u","0","0","e","9">>
      [] ch = "U+C9" -> <<"\\","u","0","0","c","9">>
      [] OTHER -> << ch >>

JsonEscape(text) == Flatten([i \in 1..Len(text) |-> JsonChar(text[i])])

JsonString(text) == <<"\"">> \o JsonEscape(text) \o <<"\"">>

\* json.dumps(value) with the default separators.
RECURSIVE JsonDumps(_)
RECURSIVE DumpItems(_, _)
DumpItems(items, isObject) ==
    IF items = << >> THEN << >>
    ELSE (IF isObject
          THEN JsonString(Head(items).k) \o <<":"," ">> \o JsonDumps(Head(items).v)
          ELSE JsonDumps(Head(items)))
         \o (IF Len(items) > 1 THEN <<","," ">> ELSE << >>)
         \o DumpItems(Tail(items), isObject)

JsonDumps(value) ==
    CASE value.t = "lit" -> value.s
      [] value.t = "str" -> JsonString(value.s)
      [] value.t = "arr" -> <<"[">> \o DumpItems(value.items, FALSE) \o <<"]">>
      [] value.t = "obj" -> <<"{">> \o DumpItems(value.items, TRUE) \o <<"}">>

\* --------------------------------------------------------- API handlers

\* One send_response call and who makes it: a registered API handler
\* ("handler") or the connection handler itself ("connection").
Call(r, by) == [r |-> r, by |-> by]

\* The name run_server gives the thread of connection c: the client's port
\* is the environment's, one port per connection.
ThreadName(c) == <<"C","l","i","e","n","t","H","a","n","d","l","e","r","-">> \o ToDecimal(50000 + c)

\* The values datetime.now().strftime("%Y-%m-%d %H:%M:%S") may return.
Timestamps == { <<"2","0","2","5","-","0","1","-","0","1"," ","0","0",":","0","0",":","0","0">>, <<"2","0","2","5","-","1","2","-","3","1"," ","2","3",":","5","9",":","5","9">> }

\* str(e) of the OSError a failed sendall raises.
SendErrorText == <<"[","E","r","r","n","o"," ","3","2","]"," ","B","r","o","k","e","n"," ","p","i","p","e">>

\* An API handler yields its first send_response call and the calls of its
\* own except clauses that enclose it, innermost first.
hello_api(request, thread) ==
    LET name == Get(request.headers, <<"X","-","N","a","m","e">>, <<"W","o","r","l","d">>)
        body == <<"{","\"","m","e","s","s","a","g","e","\"",":"," ">> \o JsonString(<<"H","e","l","l","o",","," ">> \o name \o <<" ","f","r","o","m"," ","A","P","I","!">>)
                \o <<","," ","\"","t","i","m","e","s","t","a","m","p","\"",":"," ">> \o JsonString(thread) \o <<"}">>
    IN  [first |-> Call(Response(200, <<"O","K">>, StrBody(body), <<"a","p","p","l","i","c","a","t","i","o","n","/","j","s","o","n">>),
                        "handler"),
         handlers |-> << >>, errors |-> << >>]

get_time_api(request, thread, current_time) ==
    LET body == <<"{","\"","c","u","r","r","e","n","t","_","t","i","m","e","\"",":"," ">> \o JsonString(current_time)
                \o <<","," ","\"","t","h","r","e","a","d","_","n","a","m","e","\"",":"," ">> \o JsonString(thread) \o <<"}">>
    IN  [first |-> Call(Response(200, <<"O","K">>, StrBody(body), <<"a","p","p","l","i","c","a","t","i","o","n","/","j","s","o","n">>),
                        "handler"),
         handlers |-> << >>, errors |-> << >>]

\* str(e) of the RecursionError json.loads raises.
RecursionErrorText == <<"m","a","x","i","m","u","m"," ","r","e","c","u","r","s","i","o","n"," ","d","e","p","t","h"," ","e","x","c","e","e","d","e","d"," ","w","h","i","l","e"," ","d","e","c","o","d","i","n","g"," ","a"," ","J","S","O","N"," ","a","r","r","a","y"," ","f","r","o","m"," ","a"," ","u","n","i","c","o","d","e"," ","s","t","r","i","n","g">>

\* echo_api once json.loads(request.body) has returned or raised (loaded):
\* json.JSONDecodeError is caught by the inner except clause and the raw
\* body echoed; any other exception of json.loads goes to the outer except
\* clause, which answers 400 with str(e).
Echo(request, loaded) ==
    LET data   == IF loaded.ok THEN loaded.val
                  ELSE JObj(<< [k |-> <<"r","e","c","e","i","v","e","d","_","r","a","w","_","b","o","d","y">>,
                                v |-> JStr(request.body)] >>)
        body   == <<"{","\"","s","t","a","t","u","s","\"",":"," ","\"","s","u","c","c","e","s","s","\"",","," ","\"","e","c","h","o","\"",":"," ">> \o JsonDumps(data)
                  \o <<","," ","\"","m","e","t","h","o","d","\"",":"," ">> \o JsonString(request.method) \o <<"}">>
        Error(text) == Call(Response(400, <<"B","a","d"," ","R","e","q","u","e","s","t">>,
                                     StrBody(<<"{","\"","e","r","r","o","r","\"",":"," ">> \o JsonString(text) \o <<"}">>),
                                     <<"a","p","p","l","i","c","a","t","i","o","n","/","j","s","o","n">>), "handler")
    IN  IF loaded.error = "recursion"
        THEN [first |-> Error(RecursionErrorText), handlers |-> << >>,
              errors |-> << "recursion" >>]
        ELSE [first |-> Call(Response(200, <<"O","K">>, StrBody(body), <<"a","p","p","l","i","c","a","t","i","o","n","/","j","s","o","n">>),
                             "handler"),
              handlers |-> << Error(SendErrorText) >>,
              errors |-> << >>]

\* echo_api: the echo of the request's body.
echo_api(request, thread) == Echo(request, JsonLoads(request.body))

\* The route table the three @route decorators build at import.
ROUTES ==
    (<< Upper(<<"G","E","T">>), <<"/","a","p","i","/","h","e","l","l","o">> >> :> "hello_api")
 @@ (<< Upper(<<"G","E","T">>), <<"/","a","p","i","/","t","i","m","e">> >>  :> "get_time_api")
 @@ (<< Upper(<<"P","O","S","T">>), <<"/","a","p","i","/","e","c","h","o">> >> :> "echo_api")

\* The module's global ROUTES dict while the server runs: the one object
\* every handler thread reads.
VARIABLE routes

\* A lookup that ignores the case of the method.
RouteLookup_AnyCase(method, path) ==
    IF << Upper(method), path >> \in DOMAIN routes
    THEN routes[<< Upper(method), path >>] ELSE ""

\* ROUTES.get((method, path)): the handler's name, "" for None.
RouteLookup(method, path) ==
    IF << method, path >> \in DOMAIN routes THEN routes[<< method, path >>] ELSE ""

Invoke(handler, request, thread, current_time) ==
    CASE handler = "hello_api"    -> hello_api(request, thread)
      [] handler = "get_time_api" -> get_time_api(request, thread, current_time)
      [] handler = "echo_api"     -> echo_api(request, thread)

\* --------------------------------------------------- connection handlers

Variants == {"echo", "file", "threaded"}

\* An except clause that answers 404.
Outer500_NotFound == Call(Html404, "connection")

\* The call of the except clause that ends a connection handler
\* (serverThree.py:143-145, serverTwo.py:83-85).
Outer500 == Call(Html500, "connection")

\* The calls of the connection handler's own except clauses.
RECURSIVE ByConnection(_)
ByConnection(rs) ==
    IF rs = << >> THEN << >>
    ELSE << Call(Head(rs), "connection") >> \o ByConnection(Tail(rs))

\* What a connection handler does with the bytes its recv returned, up to
\* its first write:
\*   exit      "" when it goes on to write; "return", "break" or "raise"
\*             when it ends before any write
\*   first     the send_response call it makes (none or one)
\*   writes    the chunks its first sendall calls are to write, in order
\*   handlers  the send_response calls of the except clauses enclosing the
\*             first call, innermost first
\*   errors    the errors that arose so far
\*   routed, fs, invoked, file_path
\*             whether ROUTES and the file system were consulted, the API
\*             handlers invoked, the file path resolved
\*   parsed    what the request parser returned, when it was called (none
\*             or one; ok is FALSE in it for None)
Plan(exit, first, handlers, errors, routed, fs, invoked, file_path) ==
    [exit |-> exit, first |-> first,
     writes |-> IF first = << >> THEN << >> ELSE Writes(first[1].r),
     handlers |-> handlers, errors |-> errors, routed |-> routed, fs |-> fs,
     invoked |-> invoked, file_path |-> file_path, parsed |-> << >>]

\* The static branch shared by the file server and the threaded server.
StaticPlan(method, path, routed) ==
    IF method = <<"G","E","T">>
    THEN LET s == ServeStatic(path)
         IN  Plan("", << Call(s.first, "connection") >>,
                  ByConnection(s.handlers) \o << Outer500 >>,
                  IF s.first.status_code = 500 THEN << "read" >> ELSE << >>,
                  routed, TRUE, << >>, ResolveFilePath(path))
    ELSE Plan("", << Call(MethodNotSupported(method), "connection") >>,
              << Outer500 >>, << >>, routed, FALSE, << >>, << >>)

\* handle_client_connection of the threaded server, after its recv.
HandleThreaded(data, thread, current_time) ==
    LET decoded == Decode(data)
        request == parse_request(decoded.text)
        handler == RouteLookup(request.method, request.path)
        api     == Invoke(handler, request, thread, current_time)
        Parsed(plan) == [plan EXCEPT !.parsed = << request >>]
    IN  IF ~decoded.ok
        THEN Plan("", << Outer500 >>, << >>, << "decode" >>,
                  FALSE, FALSE, << >>, << >>)
        ELSE IF decoded.text = << >>
        THEN Plan("return", << >>, << >>, << >>, FALSE, FALSE, << >>, << >>)
        ELSE Parsed(
        IF ~request.ok
        THEN Plan("", << Call(Response(400, <<"B","a","d"," ","R","e","q","u","e","s","t">>,
                                       StrBody(<<"<","h","1",">","4","0","0"," ","M","a","l","f","o","r","m","e","d"," ","R","e","q","u","e","s","t","<","/","h","1",">">>),
                                       <<"t","e","x","t","/","h","t","m","l">>), "connection") >>,
                  << Outer500 >>, << >>, FALSE, FALSE, << >>, << >>)
        ELSE IF handler # ""
        THEN Plan("", << api.first >>, api.handlers \o << Outer500 >>, api.errors,
                  TRUE, FALSE, << handler >>, << >>)
        ELSE StaticPlan(request.method, request.path, TRUE))

\* handle_request of the file server, after its recv.
HandleFile(data) ==
    LET decoded == Decode(data)
        request == parse_request_line(decoded.text)
        Parsed(plan) == [plan EXCEPT !.parsed = << request >>]
    IN  IF ~decoded.ok
        THEN Plan("", << Outer500 >>, << >>, << "decode" >>,
                  FALSE, FALSE, << >>, << >>)
        ELSE IF decoded.text = << >>
        THEN Plan("return", << >>, << >>, << >>, FALSE, FALSE, << >>, << >>)
        ELSE Parsed(
        IF ~request.ok
        THEN Plan("", << Call(Response(400, <<"B","a","d"," ","R","e","q","u","e","s","t">>,
                                       StrBody(<<"<","h","1",">","4","0","0"," ","B","a","d"," ","R","e","q","u","e","s","t","<","/","h","1",">">>),
                                       <<"t","e","x","t","/","h","t","m","l">>), "connection") >>,
                  << Outer500 >>, << >>, FALSE, FALSE, << >>, << >>)
        ELSE StaticPlan(request.method, request.path, FALSE))

\* The body of the echo server's accept loop, after its recv: it makes no
\* send_response call, its one write is the echo.
HandleEcho(data) ==
    LET decoded == Decode(data)
        plan    == Plan("", << >>, << >>, << >>, FALSE, FALSE, << >>, << >>)
    IN  IF data = << >> THEN [plan EXCEPT !.exit = "break"]
        ELSE IF ~decoded.ok
        THEN [plan EXCEPT !.exit = "raise", !.errors = << "decode" >>]
        ELSE [plan EXCEPT
                !.writes = << Encode(<<"H","e","l","l","o",","," ","c","l","i","e","n","t","!"," ","Y","o","u"," ","s","e","n","t",":"," ">> \o decoded.text) >>]

Handle(v, data, thread, current_time) ==
    CASE v = "echo"     -> HandleEcho(data)
      [] v = "file"     -> HandleFile(data)
      [] v = "threaded" -> HandleThreaded(data, thread, current_time)

\* What a handler does when its recv raises: the echo server has no except
\* clause, the other two answer 500.
HandleRecvError(v) ==
    IF v = "echo"
    THEN Plan("raise", << >>, << >>, << "recv" >>, FALSE, FALSE, << >>, << >>)
    ELSE Plan("", << Outer500 >>, << >>, << "recv" >>, FALSE, FALSE, << >>, << >>)

\* ------------------------------------------------------- state machine

\* The connections one run of a server accepts, at most.
MaxConns == 2

Conns == 1..MaxConns

\* The requests the clients of the server send: a static file, two API
\* routes, a malformed request line, a missing file, bytes that are no UTF-8.
Requests ==
    { Encode(<<"G","E","T"," ","/"," ","H","T","T","P","/","1",".","1","\r","\n","\r","\n">>),
      Encode(<<"G","E","T"," ","/","a","p","i","/","h","e","l","l","o"," ","H","T","T","P","/","1",".","1","\r","\n","X","-","N","a","m","e",":"," ","A","d","a","\r","\n","\r","\n">>),
      Encode(<<"P","O","S","T"," ","/","a","p","i","/","e","c","h","o"," ","H","T","T","P","/","1",".","1","\r","\n","\r","\n","{","\"","x","\"",":","1","}">>),
      Encode(<<"G","E","T"," ","/","\r","\n","\r","\n">>),
      Encode(<<"G","E","T"," ","/","m","i","s","s","i","n","g",".","p","n","g"," ","H","T","T","P","/","1",".","1","\r","\n","\r","\n">>),
      << "G", "xFF" >> }

\* The request lines of the wide request set: static files of every kind,
\* the API routes and their near misses, other methods, and request lines
\* that do not hold three tokens.
RequestLines ==
    { <<"G","E","T"," ","/"," ","H","T","T","P","/","1",".","1">>,
      <<"G","E","T"," ","/","i","n","d","e","x",".","h","t","m","l"," ","H","T","T","P","/","1",".","1">>,
      <<"G","E","T"," ","/","s","t","y","l","e",".","c","s","s"," ","H","T","T","P","/","1",".","1">>,
      <<"G","E","T"," ","/","l","o","g","o",".","p","n","g"," ","H","T","T","P","/","1",".","1">>,
      <<"G","E","T"," ","/","p","h","o","t","o",".","j","p","e","g"," ","H","T","T","P","/","1",".","1">>,
      <<"G","E","T"," ","/","l","o","c","k","e","d",".","t","x","t"," ","H","T","T","P","/","1",".","1">>,
      <<"G","E","T"," ","/","R","E","A","D","M","E"," ","H","T","T","P","/","1",".","1">>,
      <<"G","E","T"," ","/","a","p","p",".","j","s"," ","H","T","T","P","/","1",".","1">>,
      <<"G","E","T"," ","/","d","a","t","a",".","j","s","o","n"," ","H","T","T","P","/","1",".","1">>,
      <<"G","E","T"," ","/","p","i","c",".","j","p","g"," ","H","T","T","P","/","1",".","1">>,
      <<"G","E","T"," ","/","a","n","i","m",".","g","i","f"," ","H","T","T","P","/","1",".","1">>,
      <<"G","E","T"," ","/","n","o","t","e","s",".","t","x","t"," ","H","T","T","P","/","1",".","1">>,
      <<"G","E","T"," ","/","U","P",".","H","T","M","L"," ","H","T","T","P","/","1",".","1">>,
      <<"G","E","T"," ","/",".","h","i","d","d","e","n"," ","H","T","T","P","/","1",".","1">>,
      <<"G","E","T"," ","/","a","r","c","h","i","v","e",".","t","a","r",".","g","z"," ","H","T","T","P","/","1",".","1">>,
      <<"G","E","T"," ","/","d","o","c","s"," ","H","T","T","P","/","1",".","1">>,
      <<"G","E","T"," ","/","v","1",".","j","s","o","n"," ","H","T","T","P","/","1",".","1">>,
      <<"G","E","T"," ","/","v","1",".","j","s","o","n","/"," ","H","T","T","P","/","1",".","1">>,
      <<"G","E","T"," ","/","m","i","s","s","i","n","g",".","p","n","g"," ","H","T","T","P","/","1",".","1">>,
      <<"G","E","T"," ","/","s","t","y","l","e",".","c","s","s","/"," ","H","T","T","P","/","1",".","1">>,
      <<"G","E","T"," ","/","/","s","t","y","l","e",".","c","s","s"," ","H","T","T","P","/","1",".","1">>,
      <<"G","E","T"," ","/","/","/","d","o","c","s","/",".",".","/","s","t","y","l","e",".","c","s","s"," ","H","T","T","P","/","1",".","1">>,
      <<"G","E","T"," ","/",".",".","/","s","e","c","r","e","t",".","t","x","t"," ","H","T","T","P","/","1",".","1">>,
      <<"G","E","T"," ","s","t","y","l","e",".","c","s","s"," ","H","T","T","P","/","1",".","1">>,
      <<"G","E","T"," ","/"," ">>,
      <<"G","E","T"," "," ","/">>,
      <<"G","E","T"," ","/","a","p","i","/","h","e","l","l","o"," ","H","T","T","P","/","1",".","1">>,
      <<"G","E","T"," ","/","a","p","i","/","t","i","m","e"," ","H","T","T","P","/","1",".","1">>,
      <<"P","O","S","T"," ","/","a","p","i","/","e","c","h","o"," ","H","T","T","P","/","1",".","1">>,
      <<"P","O","S","T"," ","/","a","p","i","/","h","e","l","l","o"," ","H","T","T","P","/","1",".","1">>,
      <<"G","E","T"," ","/","a","p","i","/","e","c","h","o"," ","H","T","T","P","/","1",".","1">>,
      <<"G","E","T"," ","/","a","p","i","/","h","e","l","l","o","/"," ","H","T","T","P","/","1",".","1">>,
      <<"g","e","t"," ","/","a","p","i","/","h","e","l","l","o"," ","H","T","T","P","/","1",".","1">>,
      <<"g","e","t"," ","/"," ","H","T","T","P","/","1",".","1">>,
      <<"P","O","S","T"," ","/"," ","H","T","T","P","/","1",".","1">>,
      <<"D","E","L","E","T","E"," ","/","s","t","y","l","e",".","c","s","s"," ","H","T","T","P","/","1",".","1">>,
      <<"G","U+C9","T"," ","/"," ","H","T","T","P","/","1",".","1">>,
      <<"G","E","T"," ","/">>,
      <<"G","E","T">>,
      << >>,
      <<"G","E","T"," ","/"," ","H","T","T","P","/","1",".","1"," ","e","x","t","r","a">>,
      <<"G","E","T"," "," ","/"," ","H","T","T","P","/","1",".","1">>,
      <<" ","G","E","T"," ","/"," ","H","T","T","P","/","1",".","1">>,
      <<"G","E","T"," ","/","a","p","i","/","h","e","l","l","o">>,
      <<"P","O","S","T"," "," ","/","a","p","i","/","e","c","h","o"," ","H","T","T","P","/","1",".","1">> }

\* What follows the request line: nothing, the end of the headers, a
\* header, a JSON body, a body that is no JSON.
RequestTails ==
    { << >>,
      <<"\r","\n","\r","\n">>,
      <<"\r","\n","X","-","N","a","m","e",":"," ","A","d","a","\r","\n","\r","\n">>,
      <<"\r","\n","\r","\n","{","\"","x","\"",":","1","}">>,
      <<"\r","\n","\r","\n","n","o","t"," ","j","s","o","n">> }

\* Requests that are no valid UTF-8, or hold more than ASCII.
RawRequests ==
    { << "G", "xFF" >>,
      << "xC3" >>,
      << "G", "E", "T", " ", "/", " ", "H", "T", "T", "P", "/", "1", ".", "1", "\r", "\n", "\r", "\n", "xA9" >>,
      << "P", "O", "S", "T", " ", "/", "a", "p", "i", "/", "e", "c", "h", "o", " ", "H", "T", "T", "P", "/", "1", ".", "1", "\r", "\n", "\r", "\n", "xC3", "xA9" >> }

\* Requests for the parser: a routed GET, the routed POST and a static
\* file, each followed by header blocks and bodies of every shape: keys
\* that repeat and keys that differ in case only, padded keys and values,
\* a line without a colon, a line of several colons, no empty line at all,
\* an empty line at the very end, header-like lines after the empty line,
\* bodies that hold CRLFs and empty lines.
ParserLines ==
    { <<"G","E","T"," ","/","a","p","i","/","h","e","l","l","o"," ","H","T","T","P","/","1",".","1">>,
      <<"P","O","S","T"," ","/","a","p","i","/","e","c","h","o"," ","H","T","T","P","/","1",".","1">>,
      <<"G","E","T"," ","/","s","t","y","l","e",".","c","s","s"," ","H","T","T","P","/","1",".","1">> }

ParserTails ==
    { <<"\r","\n","H","o","s","t",":"," ","a","\r","\n","X","-","N","a","m","e",":"," "," ","A","d","a"," ","\r","\n","h","o","s","t",":"," ","b","\r","\n","X","-","N","a","m","e",":"," ","B","o","b","\r","\n","\r","\n","b","o","d","y",":"," ","x">>,
      <<"\r","\n","n","o","c","o","l","o","n","\r","\n","A",":","b",":","c","\r","\n"," ",":"," ","\r","\n","\t","K","\t",":","\t","v"," ","\r","\n","\r","\n">>,
      <<"\r","\n","X","-","N","a","m","e",":"," ","A","d","a">>,
      <<"\r","\n","X","-","N","a","m","e",":"," ","A","d","a","\r","\n">>,
      <<"\r","\n","\r","\n","l","1","\r","\n","\r","\n","l","3","\r","\n">>,
      <<"\r","\n","A",":"," ","1","\r","\n","\r","\n","\r","\n","x">>,
      <<"\r","\n","\r","\n","X","-","N","a","m","e",":"," ","E","v","e","\r","\n","\r","\n","[","1",","," ","2","]">> }

ParserRequests == { Encode(l \o t) : l \in ParserLines, t \in ParserTails }

\* Bodies for POST /api/echo: JSON values of every kind the parser of the
\* model reads, texts that are no JSON, and a value nested 1000 deep.
EchoBodies ==
    { <<"[","1",","," ","\"","a","\"",","," ","{","\"","k","\"",":"," ","n","u","l","l","}","]">>,
      <<" ","{","\"","a","\"",":","1",",","\"","a","\"",":","2","}"," ">>,
      <<"\"","s","t","r","\"">>,
      <<"-","0">>,
      <<"t","r","u">>,
      <<"[","1",",","]">>,
      <<"0","1">>,
      <<"{","\"","x","\"",":"," ","[","t","r","u","e",","," ","f","a","l","s","e","]","}">>,
      <<"[","]">>,
      <<"{","}">>,
      <<"{","\"","a","\""," ","1","}">>,
      <<"[","[","[","[","1","]","]","]","]">>,
      << DeepOpening >> }

EchoRequests ==
    { Encode(<<"P","O","S","T"," ","/","a","p","i","/","e","c","h","o"," ","H","T","T","P","/","1",".","1","\r","\n","\r","\n">> \o b) : b \in EchoBodies }

\* Every request a single connection is tried with.
AllRequests ==
    { Encode(l \o t) : l \in RequestLines, t \in RequestTails }
        \cup RawRequests \cup ParserRequests \cup EchoRequests

VARIABLES
    variant,    \* which of the three servers runs
    listener,   \* "running" while run_server's accept loop is alive
    conn        \* per connection: the handler's position and what it did

vars == << variant, listener, conn, routes >>

\* A connection before it is accepted.
\*   pc        "unaccepted", "recv" (blocked in recv), "send" (about to call
\*             sendall), "done" (the handler has ended)
\*   open      the server's socket of the connection is open
\*   got       what recv gave: "", "data", "empty", "error"
\*   req       the bytes read
\*   todo      the chunks the coming sendall calls are to write
\*   handlers  the pending except clauses' send_response calls
\*   calls     the send_response calls made, in order
\*   wire      the bytes written to the connection
\*   outcome   how the handler ended: "returned", "broke", "raised"
\*   errors    the errors that arose: "recv", "decode", "read", "send"
\*   routed, fs, invoked, file_path
\*             whether ROUTES and the file system were consulted, the API
\*             handlers invoked, the file path the static branch resolved
\*   parsed    what the request parser returned, when it was called
NewConn ==
    [pc |-> "unaccepted", open |-> FALSE, got |-> "", req |-> << >>,
     todo |-> << >>, handlers |-> << >>, calls |-> << >>,
     wire |-> << >>, outcome |-> "", errors |-> << >>, routed |-> FALSE,
     fs |-> FALSE, invoked |-> << >>, file_path |-> << >>, parsed |-> << >>]

\* Every server runs its handler inside the accept loop.
Sequential_Every(v) == v \in Variants

\* No server does: each starts a thread for the handler.
Sequential_None(v) == v \in {}

\* The servers whose accept loop calls the handler itself (server.py:28-40,
\* serverTwo.py:117-120); the threaded server starts a thread for it.
Sequential(v) == v \in {"echo", "file"}

Init ==
    /\ variant \in Variants
    /\ listener = "running"
    /\ conn = [c \in Conns |-> NewConn]
    /\ routes = ROUTES

\* A handler that ends without closing its connection.
Finish_NoClose(cn, outcome) ==
    [cn EXCEPT !.pc = "done", !.outcome = outcome,
               !.todo = << >>, !.handlers = << >>]

\* The end of a handler: conn.close() of the threaded server's finally
\* clause, the exit of "with conn" in the two sequential servers.
Finish(cn, outcome) ==
    [cn EXCEPT !.pc = "done", !.open = FALSE, !.outcome = outcome,
               !.todo = << >>, !.handlers = << >>]

\* The accept loop after a handler ended: in the sequential servers the
\* handler runs in the loop itself, so an exception that escapes it and the
\* echo server's break end the loop; a thread's end leaves it alone.
ListenerAfter(v, outcome, now) ==
    IF Sequential(v) /\ outcome \in {"raised", "broke"} THEN "terminated" ELSE now

\* s.accept(), and in the threaded server the start of the handler thread.
\* A sequential server is back in accept only when its handler has ended.
Accept(c) ==
    /\ listener = "running"
    /\ conn[c].pc = "unaccepted"
    /\ \A d \in Conns : d < c => conn[d].pc # "unaccepted"
    /\ Sequential(variant) => \A d \in Conns : conn[d].pc \in {"unaccepted", "done"}
    /\ conn' = [conn EXCEPT ![c] = [@ EXCEPT !.pc = "recv", !.open = TRUE]]
    /\ UNCHANGED << variant, listener, routes >>

\* The handler from the return of its recv to its first sendall call, or to
\* its end when it writes nothing.
Start(c, got, data, plan) ==
    LET cn == [conn[c] EXCEPT !.got = got, !.req = data, !.calls = plan.first,
                              !.todo = plan.writes, !.handlers = plan.handlers,
                              !.errors = plan.errors, !.routed = plan.routed,
                              !.fs = plan.fs, !.invoked = plan.invoked,
                              !.file_path = plan.file_path,
                              !.parsed = plan.parsed]
        outcome == CASE plan.exit = "return" -> "returned"
                     [] plan.exit = "break"  -> "broke"
                     [] plan.exit = "raise"  -> "raised"
                     [] OTHER -> ""
    IN  /\ conn' = [conn EXCEPT ![c] = IF plan.exit = "" THEN [cn EXCEPT !.pc = "send"]
                                       ELSE Finish(cn, outcome)]
        /\ listener' = ListenerAfter(variant, outcome, listener)
        /\ UNCHANGED << variant, routes >>

\* conn.recv returns data (no bytes when the peer has closed).
Recv(c, data, current_time) ==
    /\ conn[c].pc = "recv"
    /\ Start(c, IF data = << >> THEN "empty" ELSE "data", data,
             Handle(variant, data, ThreadName(c), current_time))

\* conn.recv raises: the peer has reset the connection.
RecvFail(c) ==
    /\ conn[c].pc = "recv"
    /\ Start(c, "error", << >>, HandleRecvError(variant))

\* A sendall that writes to one socket all the handler threads share, the
\* first connection's.
SendAll_Shared(c, ok) ==
    LET cn == conn[c]
        rest    == [cn EXCEPT !.todo = Tail(@)]
        failed  == [cn EXCEPT !.errors = Append(@, "send"),
                              !.calls = @ \o cn.handlers]
        outcome == IF ~ok THEN "raised"
                   ELSE IF rest.todo = << >> THEN "returned" ELSE ""
        after   == [conn EXCEPT ![c] =
                      IF ~ok THEN Finish(failed, outcome)
                      ELSE IF outcome = "" THEN rest
                      ELSE Finish(rest, outcome)]
    IN  /\ cn.pc = "send"
        /\ conn' = IF ok THEN [after EXCEPT ![1].wire = @ \o Head(cn.todo)]
                   ELSE after
        /\ listener' = ListenerAfter(variant, outcome, listener)
        /\ UNCHANGED << variant, routes >>

\* One conn.sendall call.  It writes its chunk, and when that was the last
\* chunk of the send_response call the handler ends.  Or it raises because
\* the peer is gone: then each pending except clause, innermost first, makes
\* its send_response call, whose first sendall raises in turn, and the last
\* exception escapes the handler.
SendAll(c, ok) ==
    LET cn == conn[c]
        written == [cn EXCEPT !.wire = @ \o Head(cn.todo), !.todo = Tail(@)]
        failed  == [cn EXCEPT !.errors = Append(@, "send"),
                              !.calls = @ \o cn.handlers]
        outcome == IF ~ok THEN "raised"
                   ELSE IF written.todo = << >> THEN "returned" ELSE ""
    IN  /\ cn.pc = "send"
        /\ conn' = [conn EXCEPT ![c] =
                      IF ~ok THEN Finish(failed, outcome)
                      ELSE IF outcome = "" THEN written
                      ELSE Finish(written, outcome)]
        /\ listener' = ListenerAfter(variant, outcome, listener)
        /\ UNCHANGED << variant, routes >>

Next ==
    \/ \E c \in Conns : Accept(c)
    \/ \E c \in Conns, data \in Requests \cup {<< >>}, t \in Timestamps : Recv(c, data, t)
    \/ \E c \in Conns : RecvFail(c)
    \/ \E c \in Conns, ok \in BOOLEAN : SendAll(c, ok)

Spec == Init /\ [][Next]_vars

\* One connection, tried with every request of the wide set.
OneNext ==
    \/ Accept(1)
    \/ \E data \in AllRequests \cup {<< >>}, t \in Timestamps : Recv(1, data, t)
    \/ RecvFail(1)
    \/ \E ok \in BOOLEAN : SendAll(1, ok)

HandlerSpec == Init /\ [][OneNext]_vars

\* The server with clients that connect and do not stay silent for ever,
\* and with handler threads that are scheduled: each connection is accepted
\* in the end, no handler stays blocked in recv for ever (its client sends,
\* closes or resets), and a handler that is to write gets to write.
ConcurrentSpec ==
    /\ Init
    /\ [][Next]_vars
    /\ \A c \in Conns :
          /\ WF_vars(Accept(c))
          /\ []<>(conn[c].pc # "recv")
          /\ WF_vars(SendAll(c, TRUE))

\* ---------------------------------------------------------------- claims

\* The two servers that speak HTTP.
HttpVariants == {"file", "threaded"}

\* C1: in the file server and the threaded server, a connection on which a
\* non-empty request was read has had exactly one send_response call made
\* for it when its handler has ended, whatever the outcome, a failed send
\* included.  (The code makes a second call, and a third, when a sendall
\* raises: the except clauses answer the failed send with a 500.)
C1_ExactlyOneResponse ==
    \A c \in Conns :
        (/\ variant \in HttpVariants
         /\ conn[c].got = "data"
         /\ conn[c].pc = "done") => Len(conn[c].calls) = 1

\* C2: in the file server and the threaded server a connection whose
\* handler has ended is closed, on every path: an empty read, a response
\* written, an exception that escaped the handler; and a connection is open
\* only while its handler runs.
C2_ClosedWhenHandlerEnds ==
    \A c \in Conns :
        variant \in HttpVariants =>
            /\ conn[c].pc = "done" => ~conn[c].open
            /\ conn[c].open => conn[c].pc \in {"recv", "send"}

\* C2 witness: the threaded server, a handler ended by the exception that
\* sending the 500 response itself raised, its connection closed.
C2_Witness ==
    \E c \in Conns :
        /\ variant = "threaded"
        /\ conn[c].pc = "done"
        /\ conn[c].outcome = "raised"
        /\ Len(conn[c].calls) >= 2
        /\ conn[c].calls[Len(conn[c].calls)].r.status_code = 500
        /\ ~conn[c].open

\* C3: in each of the three servers, after an error arose while a
\* connection was handled the accept loop is still alive.  (An
\* undecodable request ends the echo server's loop, and an exception raised
\* while the file server sends its 500 ends the file server's.)
C3_ErrorsLeaveListenerRunning ==
    \A c \in Conns : conn[c].errors # << >> => listener = "running"

\* C4: in each of the three servers, when the read on a connection returns
\* no bytes, nothing is written to the connection, it is closed, and the
\* accept loop goes on.  (The echo server leaves its loop on an empty
\* read.)
C4_EmptyReadKeepsAccepting ==
    \A c \in Conns :
        conn[c].got = "empty" =>
            /\ conn[c].wire = << >>
            /\ conn[c].calls = << >>
            /\ ~conn[c].open
            /\ listener = "running"

\* C6: in the threaded server, when the request matches a route the
\* registered handler is invoked exactly once and every send_response call
\* on the connection is the handler's own: the connection handler makes
\* none, also when the handler raises.  (When the handler's send fails, the
\* connection handler's except clause calls send_response with the 500.)
C6_OnlyTheHandlerResponds ==
    \A c \in Conns :
        (variant = "threaded" /\ conn[c].routed /\ conn[c].invoked # << >>) =>
            /\ Len(conn[c].invoked) = 1
            /\ \A i \in 1..Len(conn[c].calls) : conn[c].calls[i].by = "handler"

\* The text a connection's request decodes to, its first line (up to the
\* first CRLF) and the number of spaces in a line.
TextOf(c) == Decode(conn[c].req).text

FirstLine(text) ==
    IF Find(text, CRLF, 1) = 0 THEN text
    ELSE SubSeq(text, 1, Find(text, CRLF, 1) - 1)

Spaces(line) == Cardinality({ i \in 1..Len(line) : line[i] = " " })

\* A request was read and decoded on connection c of an HTTP server.
ReadText(c) ==
    /\ variant \in HttpVariants
    /\ conn[c].got = "data"
    /\ Decode(conn[c].req).ok

\* C5: in the file server and the threaded server, a request whose first
\* line does not hold exactly three space-separated tokens (that is, does
\* not hold exactly two spaces) is answered 400 Bad Request by the
\* connection handler; no error arises but a failed send, and neither the
\* route table nor the file system is consulted.  When the send succeeds,
\* that response is all that is written.
C5_MalformedGets400 ==
    \A c \in Conns :
        (ReadText(c) /\ Spaces(FirstLine(TextOf(c))) # 2) =>
            /\ conn[c].calls # << >>
            /\ conn[c].calls[1].r.status_code = 400
            /\ conn[c].calls[1].r.status_message = <<"B","a","d"," ","R","e","q","u","e","s","t">>
            /\ conn[c].calls[1].by = "connection"
            /\ ~conn[c].routed
            /\ ~conn[c].fs
            /\ conn[c].invoked = << >>
            /\ conn[c].file_path = << >>
            /\ \A i \in 1..Len(conn[c].errors) : conn[c].errors[i] = "send"
            /\ conn[c].outcome = "returned" =>
                   /\ Len(conn[c].calls) = 1
                   /\ conn[c].wire = Flatten(Writes(conn[c].calls[1].r))

\* C5 witness: the threaded server has answered a request line of four
\* tokens, one of them empty
\* between two consecutive spaces, with a 400 written in full.
C5_Witness ==
    \E c \in Conns :
        /\ variant = "threaded"
        /\ ReadText(c)
        /\ FirstLine(TextOf(c)) = <<"G","E","T"," "," ","/"," ","H","T","T","P","/","1",".","1">>
        /\ conn[c].outcome = "returned"
        /\ conn[c].calls[1].r.status_code = 400
        /\ conn[c].wire # << >>

\* The tokens of the request line of connection c.
Tokens(c) == Split(FirstLine(TextOf(c)), <<" ">>)

\* The registered routes, as the source lists them.
Registered ==
    { << <<"G","E","T">>, <<"/","a","p","i","/","h","e","l","l","o">> >>, << <<"G","E","T">>, <<"/","a","p","i","/","t","i","m","e">> >>, << <<"P","O","S","T">>, <<"/","a","p","i","/","e","c","h","o">> >> }

\* A well-formed request of the threaded server that matches no route.
Unrouted(c) ==
    /\ variant = "threaded"
    /\ ReadText(c)
    /\ Len(Tokens(c)) = 3
    /\ << Tokens(c)[1], Tokens(c)[2] >> \notin Registered

\* C7: in the threaded server, a well-formed request that matches no route
\* exactly invokes no API handler; when its method is exactly GET the
\* static resolver serves it (the file system is consulted, the first
\* response is 200, 404 or 500), and for every other method the first
\* response is the 400 with the method-not-supported body and the file
\* system is not consulted.
C7_UnroutedFallsThrough ==
    \A c \in Conns :
        Unrouted(c) =>
            /\ conn[c].invoked = << >>
            /\ conn[c].calls # << >>
            /\ conn[c].calls[1].by = "connection"
            /\ IF Tokens(c)[1] = <<"G","E","T">>
               THEN /\ conn[c].fs
                    /\ conn[c].calls[1].r.status_code \in {200, 404, 500}
               ELSE /\ ~conn[c].fs
                    /\ conn[c].calls[1].r =
                         [status_code |-> 400,
                          status_message |-> <<"B","a","d"," ","R","e","q","u","e","s","t">>,
                          body |-> [kind |-> "str",
                                    data |-> <<"<","h","1",">","4","0","0"," ","B","a","d"," ","R","e","q","u","e","s","t",":"," ","M","e","t","h","o","d"," ">>
                                             \o Tokens(c)[1]
                                             \o <<" ","n","o","t"," ","s","u","p","p","o","r","t","e","d"," ","f","o","r"," ","s","t","a","t","i","c"," ","f","i","l","e","s",".","<","/","h","1",">">>],
                          content_type |-> <<"t","e","x","t","/","h","t","m","l">>]

\* C7 witness: a lower-case "get" of a route's path was answered 400 in
\* full.
C7_Witness ==
    \E c \in Conns :
        /\ Unrouted(c)
        /\ Tokens(c)[1] = <<"g","e","t">>
        /\ Tokens(c)[2] = <<"/","a","p","i","/","h","e","l","l","o">>
        /\ conn[c].outcome = "returned"
        /\ conn[c].calls[1].r.status_code = 400
        /\ ~conn[c].fs

\* Whether text ends with suffix.
EndsWith(text, suffix) ==
    /\ Len(text) >= Len(suffix)
    /\ SubSeq(text, Len(text) - Len(suffix) + 1, Len(text)) = suffix

\* The content type of a file by the ending of its path, as the source's
\* table lists the extensions.
TypeByEnding(file_path) ==
    CASE EndsWith(file_path, <<".","h","t","m","l">>) -> <<"t","e","x","t","/","h","t","m","l">>
      [] EndsWith(file_path, <<".","c","s","s">>)  -> <<"t","e","x","t","/","c","s","s">>
      [] EndsWith(file_path, <<".","j","s">>)   -> <<"a","p","p","l","i","c","a","t","i","o","n","/","j","a","v","a","s","c","r","i","p","t">>
      [] EndsWith(file_path, <<".","j","s","o","n">>) -> <<"a","p","p","l","i","c","a","t","i","o","n","/","j","s","o","n">>
      [] EndsWith(file_path, <<".","p","n","g">>)  -> <<"i","m","a","g","e","/","p","n","g">>
      [] EndsWith(file_path, <<".","j","p","g">>)  -> <<"i","m","a","g","e","/","j","p","e","g">>
      [] EndsWith(file_path, <<".","j","p","e","g">>) -> <<"i","m","a","g","e","/","j","p","e","g">>
      [] EndsWith(file_path, <<".","g","i","f">>)  -> <<"i","m","a","g","e","/","g","i","f">>
      [] EndsWith(file_path, <<".","t","x","t">>)  -> <<"t","e","x","t","/","p","l","a","i","n">>
      [] OTHER -> <<"a","p","p","l","i","c","a","t","i","o","n","/","o","c","t","e","t","-","s","t","r","e","a","m">>

HtmlResponse(code, message, body) ==
    [status_code |-> code, status_message |-> message,
     body |-> [kind |-> "str", data |-> body], content_type |-> <<"t","e","x","t","/","h","t","m","l">>]

\* C8: in the file server and the threaded server, the first response to a
\* GET that the static resolver serves is decided by the resolved file
\* path: 200 with the file's bytes and the content type of the path's
\* extension when it names a regular file that can be read, 404 when it
\* names no regular file (a missing file, a directory without index.html),
\* 500 when the file is there and reading it fails; GET "/" is answered
\* 200 text/html with the bytes of static/index.html.
C8_StatusByResolvedFile ==
    \A c \in Conns :
        (variant \in HttpVariants /\ conn[c].fs) =>
            LET node  == Lookup(conn[c].file_path)
                first == conn[c].calls[1].r
            IN  /\ Tokens(c)[1] = <<"G","E","T">>
                /\ (node.kind = "file" /\ RegularFiles[node.at].readable) =>
                       first = [status_code |-> 200, status_message |-> <<"O","K">>,
                                body |-> [kind |-> "bytes",
                                          data |-> RegularFiles[node.at].content],
                                content_type |-> TypeByEnding(conn[c].file_path)]
                /\ node.kind # "file" =>
                       first = HtmlResponse(404, <<"N","o","t"," ","F","o","u","n","d">>, <<"<","h","1",">","4","0","4"," ","N","o","t"," ","F","o","u","n","d","<","/","h","1",">">>)
                /\ (node.kind = "file" /\ ~RegularFiles[node.at].readable) =>
                       first = HtmlResponse(500, <<"I","n","t","e","r","n","a","l"," ","S","e","r","v","e","r"," ","E","r","r","o","r">>,
                                            <<"<","h","1",">","5","0","0"," ","I","n","t","e","r","n","a","l"," ","S","e","r","v","e","r"," ","E","r","r","o","r","<","/","h","1",">">>)
                /\ Tokens(c)[2] = <<"/">> =>
                       /\ first.status_code = 200
                       /\ first.content_type = <<"t","e","x","t","/","h","t","m","l">>
                       /\ first.body.data = <<"<","h","1",">","H","i","<","/","h","1",">">>
                /\ (conn[c].outcome = "returned" /\ first.status_code = 200) =>
                       EndsWith(conn[c].wire, RegularFiles[node.at].content)

\* C8 witness: GET "/" was answered in full with static/index.html.
C8_Witness ==
    \E c \in Conns :
        /\ variant \in HttpVariants
        /\ conn[c].fs
        /\ Tokens(c)[2] = <<"/">>
        /\ conn[c].file_path = <<"s","t","a","t","i","c","/","i","n","d","e","x",".","h","t","m","l">>
        /\ conn[c].outcome = "returned"
        /\ conn[c].calls[1].r.status_code = 200
        /\ EndsWith(conn[c].wire, <<"<","h","1",">","H","i","<","/","h","1",">">>)

\* The URL path without its leading slashes, and without its first slash.
RECURSIVE WithoutLeadingSlashes(_)
WithoutLeadingSlashes(path) ==
    IF path # << >> /\ path[1] = "/"
    THEN WithoutLeadingSlashes(SubSeq(path, 2, Len(path))) ELSE path

WithoutFirstSlash(path) ==
    IF path # << >> /\ path[1] = "/" THEN SubSeq(path, 2, Len(path)) ELSE path

\* The file path for a location beneath the static root: index.html within
\* it when it is a directory.
Beneath(joined) ==
    IF OsPathIsDir(joined)
    THEN (IF joined[Len(joined)] = "/" THEN joined \o <<"i","n","d","e","x",".","h","t","m","l">>
          ELSE joined \o <<"/","i","n","d","e","x",".","h","t","m","l">>)
    ELSE joined

\* C9 as claimed: the resolved file path is the root joined with the URL
\* path minus its first slash only.
C9_StripsOneSlash ==
    \A c \in Conns :
        (variant \in HttpVariants /\ conn[c].fs) =>
            conn[c].file_path =
                Beneath(OsPathJoin(<<"s","t","a","t","i","c">>, WithoutFirstSlash(Tokens(c)[2])))

\* C9, amended: the static file resolver strips every leading slash of the
\* URL path: the resolved file path is "static/" followed by the URL path
\* without its leading slashes (and index.html within it when that is a
\* directory).
C9_StripsEveryLeadingSlash ==
    \A c \in Conns :
        (variant \in HttpVariants /\ conn[c].fs) =>
            conn[c].file_path =
                Beneath(<<"s","t","a","t","i","c","/">> \o WithoutLeadingSlashes(Tokens(c)[2]))

\* C9 witness: a URL path of two leading slashes was resolved beneath the
\* static root and its file served.
C9_Witness ==
    \E c \in Conns :
        /\ variant \in HttpVariants
        /\ conn[c].fs
        /\ Tokens(c)[2] = <<"/","/","s","t","y","l","e",".","c","s","s">>
        /\ conn[c].file_path = <<"s","t","a","t","i","c","/","s","t","y","l","e",".","c","s","s">>
        /\ conn[c].calls[1].r.status_code = 200
        /\ conn[c].outcome = "returned"

\* The number a text of decimal digits writes.
RECURSIVE DecimalValue(_)
DecimalValue(digits) ==
    IF digits = << >> THEN 0
    ELSE 10 * DecimalValue(SubSeq(digits, 1, Len(digits) - 1))
         + (CHOOSE d \in 0..9 : Digits[d + 1] = digits[Len(digits)])

\* The number of bytes UTF-8 gives a text: two for each character above
\* U+7F the model holds, one for every other.
Utf8Length(text) ==
    Len(text) + Cardinality({ i \in 1..Len(text) : text[i] \in {"U+E9", "U+C9"} })

StatusCodeText(code) ==
    CASE code = 200 -> <<"2","0","0">> [] code = 400 -> <<"4","0","0">>
      [] code = 404 -> <<"4","0","4">> [] code = 500 -> <<"5","0","0">>

\* What was written to connection c, split at the first blank line.
HeadEnd(c)     == Find(conn[c].wire, CRLF \o CRLF, 1)
HeadLines(c)   == Split(SubSeq(conn[c].wire, 1, HeadEnd(c) - 1), CRLF)
BodyWritten(c) == SubSeq(conn[c].wire, HeadEnd(c) + 4, Len(conn[c].wire))
LengthText(c)  == SubSeq(HeadLines(c)[3], Len(<<"C","o","n","t","e","n","t","-","L","e","n","g","t","h",":"," ">>) + 1,
                         Len(HeadLines(c)[3]))

\* C10: what send_response has written to a connection is, in this order
\* and with nothing else, the status line "HTTP/1.1 <code> <message>", the
\* Content-Type header, a Content-Length header, "Connection: close", one
\* blank line, then the body bytes; the Content-Length is the number of
\* body bytes written (the UTF-8 length of a text body, the length of a
\* binary one), and while the body is still to be written the header block
\* is complete and no body byte is out.
C10_ResponseFormat ==
    \A c \in Conns :
        (variant \in HttpVariants /\ conn[c].wire # << >>) =>
            LET r == conn[c].calls[1].r
            IN  /\ HeadEnd(c) # 0
                /\ Len(HeadLines(c)) = 4
                /\ HeadLines(c)[1] = <<"H","T","T","P","/","1",".","1"," ">> \o StatusCodeText(r.status_code)
                                     \o <<" ">> \o r.status_message
                /\ HeadLines(c)[2] = <<"C","o","n","t","e","n","t","-","T","y","p","e",":"," ">> \o r.content_type
                /\ SubSeq(HeadLines(c)[3], 1, Len(<<"C","o","n","t","e","n","t","-","L","e","n","g","t","h",":"," ">>)) = <<"C","o","n","t","e","n","t","-","L","e","n","g","t","h",":"," ">>
                /\ LengthText(c) # << >>
                /\ \A i \in 1..Len(LengthText(c)) : LengthText(c)[i] \in DigitSet
                /\ HeadLines(c)[4] = <<"C","o","n","n","e","c","t","i","o","n",":"," ","c","l","o","s","e">>
                /\ DecimalValue(LengthText(c)) =
                       IF r.body.kind = "bytes" THEN Len(r.body.data)
                       ELSE Utf8Length(r.body.data)
                /\ conn[c].pc = "send" =>
                       /\ BodyWritten(c) = << >>
                       /\ Len(conn[c].todo) = 1
                       /\ Len(conn[c].todo[1]) = DecimalValue(LengthText(c))
                /\ conn[c].outcome = "returned" =>
                       /\ Len(BodyWritten(c)) = DecimalValue(LengthText(c))
                       /\ BodyWritten(c) = IF r.body.kind = "bytes" THEN r.body.data
                                           ELSE Encode(r.body.data)
                /\ conn[c].outcome = "raised" => BodyWritten(c) = << >>

\* C10 witness: a text body that holds a character of two bytes was
\* written in full.
C10_Witness ==
    \E c \in Conns :
        /\ variant \in HttpVariants
        /\ conn[c].outcome = "returned"
        /\ conn[c].calls # << >>
        /\ conn[c].calls[1].r.body.kind = "str"
        /\ Utf8Length(conn[c].calls[1].r.body.data) > Len(conn[c].calls[1].r.body.data)
        /\ Len(BodyWritten(c)) = Utf8Length(conn[c].calls[1].r.body.data)

\* C11: in the threaded server the accept loop is never ended and never
\* held up by a handler: whatever the handlers of the connections accepted
\* so far are doing (blocked in recv, writing, ended by an exception), the
\* next connection can be accepted.
C11_ListenerNeverWaits ==
    variant = "threaded" =>
        /\ listener = "running"
        /\ \A c \in Conns :
               (/\ conn[c].pc = "unaccepted"
                /\ \A d \in Conns : d < c => conn[d].pc # "unaccepted")
                   => ENABLED Accept(c)

\* C11 witness: the first client has not sent its request, its handler is
\* blocked in recv, and a client accepted after it has its whole response.
C11_Witness ==
    \E c, d \in Conns :
        /\ variant = "threaded"
        /\ c < d
        /\ conn[c].pc = "recv"
        /\ conn[d].outcome = "returned"
        /\ conn[d].calls # << >>
        /\ conn[d].wire = Flatten(Writes(conn[d].calls[1].r))

\* Whether a is a prefix of b.
IsPrefix(a, b) == Len(a) <= Len(b) /\ SubSeq(b, 1, Len(a)) = a

\* Nothing but connection c's own response is on connection c: the first
\* send_response call is the one its own request gets from its own handler
\* thread, and what was written is a prefix of that response.
OwnBytesOnly(c) ==
    /\ conn[c].calls = << >> => conn[c].wire = << >>
    /\ conn[c].calls # << >> =>
           IsPrefix(conn[c].wire, Flatten(Writes(conn[c].calls[1].r)))
    /\ (conn[c].got = "data" /\ conn[c].calls # << >>) =>
           \E t \in Timestamps :
               << conn[c].calls[1] >> =
                   Handle("threaded", conn[c].req, ThreadName(c), t).first

\* The handler of connection c has ended, and a client that sent a request
\* and stayed connected has the whole response to it.
Served(c) ==
    /\ conn[c].pc = "done"
    /\ (/\ conn[c].got = "data"
        /\ \A i \in 1..Len(conn[c].errors) : conn[c].errors[i] # "send") =>
           /\ conn[c].outcome = "returned"
           /\ conn[c].wire = Flatten(Writes(conn[c].calls[1].r))

\* C12: in the threaded server, under every interleaving of the handler
\* threads, each connection carries bytes of its own response only, the
\* route table stays as it was built at startup, and each client that
\* sends a request and stays connected has in the end the whole response
\* to its own request.
C12_IndependentResponses ==
    /\ [](variant = "threaded" =>
             (routes = ROUTES /\ \A c \in Conns : OwnBytesOnly(c)))
    /\ \A c \in Conns : <>(variant = "threaded" => Served(c))

\* C12 witness: two handlers run at once on different requests; one has
\* written its header block and not yet its body, the other has written
\* its whole response, and each connection holds its own bytes.
C12_Witness ==
    \E c, d \in Conns :
        /\ variant = "threaded"
        /\ c # d
        /\ conn[c].req # conn[d].req
        /\ conn[c].pc = "send"
        /\ conn[c].wire # << >>
        /\ conn[d].outcome = "returned"
        /\ conn[d].got = "data"
        /\ conn[d].wire = Flatten(Writes(conn[d].calls[1].r))
        /\ OwnBytesOnly(c)
        /\ OwnBytesOnly(d)

\* The lines of a request text and the place of the first empty line after
\* the request line (one past the last line when there is none).
LinesOf(text) == Split(text, CRLF)

EmptyLineAt(lines) ==
    IF \E i \in 2..Len(lines) : lines[i] = << >>
    THEN Least({ i \in 2..Len(lines) : lines[i] = << >> })
    ELSE Len(lines) + 1

\* The places of the header lines: the lines between the request line and
\* the first empty line that hold a colon.
HeaderLinePlaces(lines) ==
    { i \in 2..(EmptyLineAt(lines) - 1) : \E j \in 1..Len(lines[i]) : lines[i][j] = ":" }

ColonAt(line) == Least({ j \in 1..Len(line) : line[j] = ":" })

\* A text without the whitespace around it.
Trimmed(s) ==
    LET keep == { i \in 1..Len(s) : s[i] \notin Whitespace }
    IN  IF keep = {} THEN << >> ELSE SubSeq(s, Least(keep), Greatest(keep))

KeyOf(line)   == Trimmed(SubSeq(line, 1, ColonAt(line) - 1))
ValueOf(line) == Trimmed(SubSeq(line, ColonAt(line) + 1, Len(line)))

\* The headers map a request text is to give: each key with the value of
\* the last header line that carries it.
HeadersOf(lines) ==
    LET places == HeaderLinePlaces(lines)
    IN  [k \in { KeyOf(lines[i]) : i \in places } |->
            ValueOf(lines[Greatest({ i \in places : KeyOf(lines[i]) = k })])]

\* The threaded server has read, on connection c, a request whose request
\* line holds three tokens.
ThreeTokens(c) ==
    /\ variant = "threaded"
    /\ ReadText(c)
    /\ Len(Tokens(c)) = 3

\* C13: for a request text with a three-token request line, parse_request
\* returns the three tokens as method, path and HTTP version, and as
\* headers the map that holds, for each line with a colon between the
\* request line and the first empty line, the trimmed text before its first
\* colon as key and the trimmed text after it as value, the last line of a
\* key giving its value; keys keep their case, and no line after the first
\* empty line gives a header.
C13_ParsedAsReceived ==
    \A c \in Conns :
        ThreeTokens(c) =>
            /\ Len(conn[c].parsed) = 1
            /\ conn[c].parsed[1].ok
            /\ conn[c].parsed[1].method = Tokens(c)[1]
            /\ conn[c].parsed[1].path = Tokens(c)[2]
            /\ conn[c].parsed[1].http_version = Tokens(c)[3]
            /\ conn[c].parsed[1].headers = HeadersOf(LinesOf(TextOf(c)))

\* C13 witness: a request was parsed whose header block holds X-Name twice,
\* padded, and Host beside host, and whose body looks like a header: the
\* last X-Name is kept, both spellings of Host are keys, "body" is none.
C13_Witness ==
    \E c \in Conns :
        /\ ThreeTokens(c)
        /\ conn[c].parsed # << >>
        /\ conn[c].parsed[1].ok
        /\ DOMAIN conn[c].parsed[1].headers = {<<"H","o","s","t">>, <<"h","o","s","t">>, <<"X","-","N","a","m","e">>}
        /\ conn[c].parsed[1].headers[<<"X","-","N","a","m","e">>] = <<"B","o","b">>
        /\ conn[c].parsed[1].headers[<<"H","o","s","t">>] = <<"a">>
        /\ conn[c].parsed[1].headers[<<"h","o","s","t">>] = <<"b">>
        /\ conn[c].parsed[1].body = <<"b","o","d","y",":"," ","x">>

\* POST /api/echo was dispatched to echo_api on connection c.
Echoed(c) ==
    /\ variant = "threaded"
    /\ conn[c].invoked = << "echo_api" >>
    /\ conn[c].parsed # << >>

\* The response the echo route is to give a request body: the parsed value
\* under "echo" when the body is JSON, and the raw body under
\* "received_raw_body" when it is not.
EchoOf(body) ==
    [status_code |-> 200, status_message |-> <<"O","K">>,
     body |-> [kind |-> "str",
               data |-> <<"{","\"","s","t","a","t","u","s","\"",":"," ","\"","s","u","c","c","e","s","s","\"",","," ","\"","e","c","h","o","\"",":"," ">>
                        \o (IF JsonLoads(body).ok THEN JsonDumps(JsonLoads(body).val)
                            ELSE <<"{","\"","r","e","c","e","i","v","e","d","_","r","a","w","_","b","o","d","y","\"",":"," ">> \o JsonString(body) \o <<"}">>)
                        \o <<","," ","\"","m","e","t","h","o","d","\"",":"," ","\"","P","O","S","T","\"","}">>],
     content_type |-> <<"a","p","p","l","i","c","a","t","i","o","n","/","j","s","o","n">>]

\* C14: in the threaded server, whatever the body of a POST /api/echo, the
\* handler's first response is 200 with status "success", method "POST"
\* and as echo the parsed JSON value, or the raw body under
\* "received_raw_body" when the body is no JSON; and a body that is no JSON
\* is never answered 400 or 500.  (A body nested 1000 deep makes json.loads
\* raise RecursionError, which is no JSONDecodeError: the outer except
\* clause answers 400.)
C14_EchoAlways200 ==
    \A c \in Conns :
        Echoed(c) =>
            /\ conn[c].calls[1].r = EchoOf(conn[c].parsed[1].body)
            /\ conn[c].calls[1].by = "handler"
            /\ ~JsonLoads(conn[c].parsed[1].body).ok =>
                   conn[c].calls[1].r.status_code \notin {400, 500}

\* C15: in the file server and the threaded server each connection goes
\* through accepted, read, parsed, dispatched, response sent, closed, in
\* that order and each once: a send_response call is made only after the
\* read has returned and, when the bytes decode to a text, after the
\* request was parsed; at most one send_response call is made; a closed
\* connection has nothing left to write; and when a write fails the
\* connection is closed with no further send_response call.  (After a
\* failed write the except clauses make a second call, and a third.)
C15_StrictStateOrder ==
    \A c \in Conns :
        variant \in HttpVariants =>
            /\ conn[c].pc \in {"unaccepted", "recv"} =>
                   (conn[c].calls = << >> /\ conn[c].wire = << >> /\ conn[c].parsed = << >>)
            /\ conn[c].calls # << >> => conn[c].got \in {"data", "error"}
            /\ (conn[c].calls # << >> /\ conn[c].got = "data" /\ Decode(conn[c].req).ok) =>
                   conn[c].parsed # << >>
            /\ (conn[c].routed \/ conn[c].fs) =>
                   (conn[c].parsed # << >> /\ conn[c].parsed[1].ok)
            /\ Len(conn[c].calls) <= 1
            /\ conn[c].pc = "done" => (~conn[c].open /\ conn[c].todo = << >>)
            /\ (\E i \in 1..Len(conn[c].errors) : conn[c].errors[i] = "send") =>
                   (conn[c].pc = "done" /\ ~conn[c].open /\ Len(conn[c].calls) = 1)

\* C16: in the echo server and the file server at most one accepted
\* connection is open at any time: a connection is accepted only when the
\* handler of every connection before it has ended and closed it, and while
\* a handler runs (blocked in recv for a client that sends nothing, or
\* writing) no connection can be accepted.
C16_OneConnectionAtATime ==
    variant \in {"echo", "file"} =>
        /\ Cardinality({ c \in Conns : conn[c].open }) <= 1
        /\ \A c, d \in Conns :
               (d < c /\ conn[c].pc # "unaccepted") =>
                   (conn[d].pc = "done" /\ ~conn[d].open)
        /\ (\E d \in Conns : conn[d].pc \in {"recv", "send"}) =>
               \A c \in Conns : ~ENABLED Accept(c)

\* C16 witness: the file server has handled and closed its first
\* connection and is blocked in recv on the second.
C16_Witness ==
    \E c, d \in Conns :
        /\ variant = "file"
        /\ d < c
        /\ conn[d].pc = "done"
        /\ conn[d].outcome = "returned"
        /\ ~conn[d].open
        /\ conn[c].pc = "recv"
        /\ conn[c].open
        /\ listener = "running"

\* C17: for a request text with a three-token request line, the body
\* parse_request returns is the text that follows the first empty line
\* (all of it: the CRLFs and the empty lines within it are kept), and the
\* empty text when no empty line is followed by anything.
C17_BodyAfterFirstEmptyLine ==
    \A c \in Conns :
        ThreeTokens(c) =>
            LET text == TextOf(c)
                k    == Find(text, CRLF \o CRLF, 1)
            IN  /\ conn[c].parsed # << >>
                /\ conn[c].parsed[1].body =
                       IF k = 0 THEN << >> ELSE SubSeq(text, k + 4, Len(text))

\* C17 witness: a body of three lines, the second of them empty, that ends
\* with a CRLF was returned as it was sent.
C17_Witness ==
    \E c \in Conns :
        /\ ThreeTokens(c)
        /\ conn[c].parsed # << >>
        /\ conn[c].parsed[1].headers = NoHeaders
        /\ conn[c].parsed[1].body = <<"l","1","\r","\n","\r","\n","l","3","\r","\n">>

\* An exception has escaped the API handler invoked on connection c: its
\* send failed, and its own except clause, where it has one, failed too.
HandlerRaised(c) ==
    /\ variant = "threaded"
    /\ conn[c].invoked # << >>
    /\ \E i \in 1..Len(conn[c].errors) : conn[c].errors[i] = "send"

\* C18: in the threaded server, when an exception escapes a registered
\* API handler, the connection handler catches it and calls send_response
\* with 500 Internal Server Error on that connection, once and after every
\* call of the API handler, and the connection is then closed.
C18_HandlerExceptionGets500 ==
    \A c \in Conns :
        HandlerRaised(c) =>
            LET n == Len(conn[c].calls)
            IN  /\ n >= 2
                /\ conn[c].calls[n].by = "connection"
                /\ conn[c].calls[n].r =
                       HtmlResponse(500, <<"I","n","t","e","r","n","a","l"," ","S","e","r","v","e","r"," ","E","r","r","o","r">>,
                                    <<"<","h","1",">","5","0","0"," ","I","n","t","e","r","n","a","l"," ","S","e","r","v","e","r"," ","E","r","r","o","r","<","/","h","1",">">>)
                /\ \A i \in 1..(n - 1) : conn[c].calls[i].by = "handler"
                /\ conn[c].pc = "done"
                /\ ~conn[c].open
                /\ listener = "running"

\* C18 witness: echo_api's send of the 200 failed, its except clause's 400
\* failed as well, and the connection handler answered 500 and closed.
C18_Witness ==
    \E c \in Conns :
        /\ HandlerRaised(c)
        /\ conn[c].invoked = << "echo_api" >>
        /\ [i \in 1..Len(conn[c].calls) |-> conn[c].calls[i].r.status_code] = << 200, 400, 500 >>
        /\ conn[c].calls[3].by = "connection"
        /\ ~conn[c].open

\* Whether a URL path holds a parent-directory segment.
HasParentSegment(path) ==
    \E i \in 1..Len(Split(path, <<"/">>)) : Split(path, <<"/">>)[i] = <<".", ".">>

\* A GET that no route takes, whose URL path holds a parent-directory
\* segment.
ParentPathGet(c) ==
    /\ ReadText(c)
    /\ Len(Tokens(c)) = 3
    /\ Tokens(c)[1] = <<"G","E","T">>
    /\ variant = "threaded" => << Tokens(c)[1], Tokens(c)[2] >> \notin Registered
    /\ HasParentSegment(Tokens(c)[2])

\* Whether a node of the file system lies outside the static root.
OutsideRoot(at) ==
    ~(Len(at) >= 2 /\ SubSeq(at, 1, 2) = << <<"s","r","v">>, <<"s","t","a","t","i","c">> >>)

\* C19: in the file server and the threaded server a GET whose path holds
\* parent-directory segments is not rejected: the path is joined beneath
\* the static root with its segments as they are, the file system is
\* consulted at that place, and when the place is a regular file outside
\* the root that can be read, the first response is 200 with the file's
\* bytes.
C19_ParentSegmentsNotRejected ==
    \A c \in Conns :
        ParentPathGet(c) =>
            LET node == Lookup(conn[c].file_path)
            IN  /\ conn[c].fs
                /\ conn[c].file_path =
                       Beneath(<<"s","t","a","t","i","c","/">> \o WithoutLeadingSlashes(Tokens(c)[2]))
                /\ HasParentSegment(conn[c].file_path)
                /\ (node.kind = "file" /\ RegularFiles[node.at].readable) =>
                       /\ conn[c].calls[1].r.status_code = 200
                       /\ conn[c].calls[1].r.body = BytesBody(RegularFiles[node.at].content)
                       /\ conn[c].outcome = "returned" =>
                              EndsWith(conn[c].wire, RegularFiles[node.at].content)

\* C19 witness: GET /../secret.txt was answered 200 with the bytes of a
\* file that lies beside the static root, not in it.
C19_Witness ==
    \E c \in Conns :
        /\ ParentPathGet(c)
        /\ conn[c].file_path = <<"s","t","a","t","i","c","/",".",".","/","s","e","c","r","e","t",".","t","x","t">>
        /\ Lookup(conn[c].file_path).kind = "file"
        /\ OutsideRoot(Lookup(conn[c].file_path).at)
        /\ conn[c].outcome = "returned"
        /\ conn[c].calls[1].r.status_code = 200
        /\ EndsWith(conn[c].wire, <<"k","e","y">>)

\* The bytes read on connection c of an HTTP server are no valid UTF-8.
Undecodable(c) ==
    /\ variant \in HttpVariants
    /\ conn[c].got = "data"
    /\ ~Decode(conn[c].req).ok

\* C20: in the file server and the threaded server, when the bytes read
\* are no valid UTF-8 the request is neither parsed nor dispatched, the
\* connection handler makes one send_response call, the 500, which is all
\* that is written when the handler returns, the connection is closed when
\* the handler has ended, and the server keeps running.  (In the file
\* server the exception of a failed send of that 500 escapes the handler
\* and ends the accept loop.)
C20_DecodeFailureGets500 ==
    \A c \in Conns :
        Undecodable(c) =>
            /\ conn[c].parsed = << >>
            /\ ~conn[c].routed
            /\ ~conn[c].fs
            /\ conn[c].invoked = << >>
            /\ conn[c].calls = << Outer500 >>
            /\ conn[c].outcome = "returned" => conn[c].wire = Flatten(Writes(Html500))
            /\ conn[c].pc = "done" => ~conn[c].open
            /\ listener = "running"

====
